---- MODULE Spec2Model ----
(***************************************************************************)
(* Model of the AudioLogPrototype streaming-transcription core:            *)
(*   - the transcript reconciler (useDeepgram.onTranscriptReceived),       *)
(*   - the segment rotator (useAudioRecording),                            *)
(*   - the streaming client (DeepgramService + useDeepgram).               *)
(* Text is modelled as a sequence of one-character strings so that         *)
(* endsWith / lastIndexOf / substring are computed, not assumed.           *)
(***************************************************************************)
EXTENDS Integers, Sequences, FiniteSets, TLC

(***************************************************************************)
(* Bounds of the model.                                                    *)
(***************************************************************************)
MaxEvents == 3
MaxSessions == 2
MaxRecs == 2
MaxInFlight == 2
MaxStops == 1
MaxSocks == 2
MaxAudio == 1
MaxClientEvents == 1
MaxMeterStarts == 2
MaxMeterSamples == 102
MaxLevelChanges == 1

(***************************************************************************)
(* Input texts of recognition results.                                     *)
(***************************************************************************)
TxtEmpty == << >>
TxtBlank == <<" ">>
TxtHello == <<"H","e","l","l","o">>
TxtWorld == <<"w","o","r","l","d">>
TxtHi == <<"H","i",".">>
TxtOk == <<"o","k",",">>
TxtAnd == <<"a","n","d"," ">>
TxtSo == <<"S","o","."," ","u","m">>
TxtHowAr == <<"h","o","w"," ","a","r">>
TxtHowAreYou == <<"h","o","w"," ","a","r","e"," ","y","o","u">>
TxtHowAreYouQ == <<"H","o","w"," ","a","r","e"," ","y","o","u","?">>

Texts ==
    { TxtEmpty, TxtBlank, TxtHello, TxtWorld, TxtHi, TxtOk, TxtAnd, TxtSo,
      TxtHowAr, TxtHowAreYou, TxtHowAreYouQ }

VARIABLES
    \* ---- useDeepgram / reconciler ----
    transcription,      \* useState('') transcription
    interimResults,     \* useState(true) interimResults
    svcCreated,         \* deepgramServiceRef.current !== null
    handlerInterim,     \* interimResults as captured by onTranscriptReceived
    \* ---- history of the reconciler (for the properties) ----
    events,             \* results delivered to onTranscriptReceived, in order
    afterFinal,         \* transcription right after the most recent final
    committed,          \* merge of the final results alone
    \* ---- useAudioRecording / rotator ----
    permission,             \* useState(false) permission
    recording,              \* useState(null) recording (0 is null)
    isRecording,            \* useState(false) isRecording
    recordingIntervalRef,   \* session whose rotation interval the ref holds, 0 is null
    meteringIntervalRef,    \* session whose metering interval the ref holds, 0 is null
    rotTimers,              \* sessions whose rotation interval is armed
    meterTimers,            \* sessions whose metering interval is armed
    nSessions,              \* startRecording closures that armed an interval
    streamInterval,         \* per closure: let streamInterval
    currentRecordingRef,    \* per closure: currentRecordingRef.current
    startCall,              \* the startRecording call awaiting createAsync
    stops,                  \* stopRecording calls awaiting stopAndUnloadAsync
    recs,                   \* the device's Recording objects and their files
    nRecs,                  \* Recording objects created so far
    ticks,                  \* processCurrentSegment invocations in flight
    \* ---- history of the rotator (for the properties) ----
    emitted,                \* segments handed to onAudioData, in order, each with
                            \* whether stopRecording had been called by then
    stopped,                \* sessions for which stopRecording has been called
    \* ---- DeepgramService / useDeepgram client ----
    apiKey,                 \* whether an API key is configured
    punctuate,              \* useState(true) punctuate
    smartFormat,            \* useState(true) smartFormat
    socket,                 \* this.socket of the service (0 is null)
    socks,                  \* every WebSocket created, with its closure state
    nSocks,                 \* WebSockets created so far
    isConnected,            \* useState(false) isConnected
    closureIsConnected,     \* isConnected as closed over by sendAudioToDeepgram
    \* ---- history of the client (for the properties) ----
    session,                \* "never", "active" after connect, "stopped" after disconnect
    lastSend,               \* what the last sendAudioToDeepgram call did
    lastConnect,            \* whether the last DeepgramService.connect found an open socket
    lastDisconnect,         \* what the last disconnectFromDeepgram did (cleared by a connect)
    closedActive,           \* the held socket closed unsolicited in an active session
    attemptsSinceClose,     \* connection attempts the client started since then
    \* ---- history of the inbound messages (for the properties) ----
    malformedAt,            \* 0 until a message that is not JSON arrives, then
                            \* 1 + the results delivered before the latest one
    \* ---- metering (useAudioRecording, App.js) ----
    meteringValues,         \* React state: the samples shown, in sixtieths
    meterIntervals,         \* one entry per metering interval created: whether the
                            \* recording its callback closed over was non-null
    meterArmed,             \* metering intervals not cleared
    meterRef,               \* meteringIntervalRef of the metering model, 0 is null
    deviceMetering,         \* the level the capture device reports, in dB
    levelChanges,           \* how often that level changed
    arrivals,               \* every sample appended since the buffer was last reset
    lastMeterTick           \* what the last metering callback did

recVars == <<transcription, interimResults, svcCreated, handlerInterim,
             events, afterFinal, committed>>

rotVars == <<permission, recording, isRecording, recordingIntervalRef,
             meteringIntervalRef, rotTimers, meterTimers, nSessions,
             streamInterval, currentRecordingRef, startCall, stops, recs,
             nRecs, ticks, emitted, stopped>>

cliVars == <<apiKey, punctuate, smartFormat, socket, socks, nSocks, isConnected, closureIsConnected,
             session, lastSend, lastConnect, lastDisconnect, closedActive, attemptsSinceClose>>

\* what the owner configures: the key and two of the three options
cfgVars == <<apiKey, punctuate, smartFormat>>

msgVars == <<malformedAt>>

metVars == <<meteringValues, meterIntervals, meterArmed, meterRef,
             deviceMetering, levelChanges, arrivals, lastMeterTick>>

vars == <<recVars, rotVars, cliVars, msgVars, metVars>>

(***************************************************************************)
(* String helpers, as the JavaScript built-ins compute them.               *)
(***************************************************************************)
Max2(a, b) == IF a >= b THEN a ELSE b

Max3(a, b, c) == Max2(a, Max2(b, c))

\* String.prototype.endsWith
EndsWith(s, t) ==
    /\ Len(t) <= Len(s)
    /\ SubSeq(s, Len(s) - Len(t) + 1, Len(s)) = t

\* String.prototype.lastIndexOf (0-based, -1 when absent)
LastIndexOf(s, pat) ==
    LET hits == { i \in 0..(Len(s) - Len(pat)) :
                    SubSeq(s, i + 1, i + Len(pat)) = pat }
    IN  IF hits = {} THEN -1
        ELSE CHOOSE i \in hits : \A j \in hits : j <= i

\* String.prototype.substring(0, n)
Substring0(s, n) == SubSeq(s, 1, IF n > Len(s) THEN Len(s) ELSE n)

\* the truthiness test `transcript && transcript.trim()`
HasText(t) == \E i \in 1..Len(t) : t[i] # " "

IsPrefix(p, s) == Len(p) <= Len(s) /\ SubSeq(s, 1, Len(p)) = p

LastChar(s) == s[Len(s)]

(***************************************************************************)
(* onTranscriptReceived: the final branch.                                 *)
(***************************************************************************)
NoSpaceAfter == {" ", ".", "?", "!", ","}

NeedsSpaceNoComma(prev) ==
    Len(prev) > 0 /\ LastChar(prev) \notin {" ", ".", "?", "!"}

NeedsSpace(prev) ==
    Len(prev) > 0 /\ LastChar(prev) \notin NoSpaceAfter

IsDuplicateWhole(prev, transcript) == prev = transcript

IsDuplicate(prev, transcript) == EndsWith(prev, transcript)

\* a variant of FinalMerge that trims a trailing space of the previous text
\* before appending
MutFinalMergeTrim(prev, transcript) ==
    IF IsDuplicate(prev, transcript)
    THEN prev
    ELSE IF Len(prev) > 0 /\ LastChar(prev) = " "
    THEN SubSeq(prev, 1, Len(prev) - 1) \o transcript
    ELSE prev \o (IF NeedsSpace(prev) THEN <<" ">> ELSE << >>) \o transcript

FinalMerge(prev, transcript) ==
    IF IsDuplicate(prev, transcript)
    THEN prev
    ELSE prev \o (IF NeedsSpace(prev) THEN <<" ">> ELSE << >>) \o transcript

(***************************************************************************)
(* onTranscriptReceived: the interim branch.                               *)
(***************************************************************************)
LastCompleteSentenceEnd(prev) ==
    Max3(LastIndexOf(prev, <<".", " ">>),
         LastIndexOf(prev, <<"?", " ">>),
         LastIndexOf(prev, <<"!", " ">>))

\* a variant of InterimMerge that always replaces the whole transcript
MutInterimMergeWhole(prev, transcript) == transcript

InterimMerge(prev, transcript) ==
    IF LastCompleteSentenceEnd(prev) >= 0
    THEN Substring0(prev, LastCompleteSentenceEnd(prev) + 2) \o transcript
    ELSE transcript

OnTranscriptReceived(prev, transcript, isFinal, interim) ==
    IF ~HasText(transcript) THEN prev
    ELSE IF isFinal THEN FinalMerge(prev, transcript)
    ELSE IF interim THEN InterimMerge(prev, transcript)
    ELSE prev

(***************************************************************************)
(* Reconciler actions.                                                     *)
(***************************************************************************)
RecInit ==
    /\ transcription = << >>
    /\ interimResults = TRUE
    /\ svcCreated = FALSE
    /\ handlerInterim = FALSE
    /\ events = << >>
    /\ afterFinal = << >>
    /\ committed = << >>

\* setInterimResults, from the options panel
SetInterimResults(b) ==
    /\ interimResults' = b
    /\ UNCHANGED <<transcription, svcCreated, handlerInterim,
                   events, afterFinal, committed>>

\* initializeDeepgram: creates the service once; the handlers close over
\* the interimResults of that render
InitializeDeepgram ==
    /\ apiKey
    /\ ~svcCreated
    /\ svcCreated' = TRUE
    /\ handlerInterim' = interimResults
    /\ UNCHANGED <<transcription, interimResults, events, afterFinal, committed>>

\* the effect on the reconciler of socket.onmessage receiving a Results
\* message with the given transcript: blank transcripts are dropped by the
\* service before onTranscriptReceived is called
DeliverResults(t, isFinal) ==
    IF HasText(t)
    THEN /\ transcription' =
                OnTranscriptReceived(transcription, t, isFinal, handlerInterim)
         /\ events' = Append(events, [isFinal |-> isFinal, text |-> t])
         /\ afterFinal' = IF isFinal THEN transcription' ELSE afterFinal
         /\ committed' = IF isFinal THEN FinalMerge(committed, t) ELSE committed
    ELSE UNCHANGED <<transcription, events, afterFinal, committed>>

OnResults(t, isFinal) ==
    /\ svcCreated
    /\ Len(events) < MaxEvents
    /\ DeliverResults(t, isFinal)
    /\ UNCHANGED <<interimResults, svcCreated, handlerInterim>>

\* clearTranscription
ClearTranscription ==
    /\ transcription # << >>
    /\ transcription' = << >>
    /\ events' = << >>
    /\ afterFinal' = << >>
    /\ committed' = << >>
    /\ UNCHANGED <<interimResults, svcCreated, handlerInterim>>

(***************************************************************************)
(* The streaming client: DeepgramService and the useDeepgram hook.         *)
(* A WebSocket keeps its handlers after the service drops its reference,   *)
(* so every socket ever created stays in socks with its own closure state. *)
(***************************************************************************)
SockIds == 1..MaxSocks

\* the options object connectToDeepgram passes to connect()
Options == [interimResults |-> interimResults, punctuate |-> punctuate,
            smartFormat |-> smartFormat]

\* the three optional query parameters connect() appends to the URL
UrlParams(options) ==
    [interim_results |-> FALSE, punctuate |-> options.punctuate,
     smart_format |-> options.smartFormat]

NoOptions == [interimResults |-> FALSE, punctuate |-> FALSE, smartFormat |-> FALSE]

NoSock == [st |-> "none", sent |-> << >>, flag |-> FALSE, pending |-> FALSE,
           opts |-> NoOptions, params |-> UrlParams(NoOptions)]

\* new WebSocket(...): CONNECTING; `let isConnected = false`; the promise
\* of connect() pending. Its 5 s timer is armed too, but once the promise is
\* settled the timer's resolve(false) does nothing, so only a pending
\* promise is recorded
\* (opts, the options it was asked for, is kept beside params, the query
\* of its URL)
NewSock == [st |-> "CONNECTING", sent |-> << >>, flag |-> FALSE, pending |-> TRUE,
            opts |-> Options, params |-> UrlParams(Options)]

NoSend == [called |-> FALSE, wasOpen |-> FALSE, reachedService |-> FALSE,
           result |-> FALSE, transmitted |-> FALSE, transcriptChanged |-> FALSE]

NoConnect == [called |-> FALSE, wasOpen |-> FALSE]

NoDisconnect == [called |-> FALSE, wasOpen |-> FALSE, wasDisconnected |-> FALSE,
                 reportsDisconnected |-> FALSE, sentCloseStream |-> FALSE,
                 sentAny |-> FALSE, closing |-> FALSE, changed |-> FALSE]

CliInit ==
    /\ apiKey \in BOOLEAN
    /\ punctuate = TRUE
    /\ smartFormat = TRUE
    /\ socket = 0
    /\ socks = [s \in SockIds |-> NoSock]
    /\ nSocks = 0
    /\ isConnected = FALSE
    /\ closureIsConnected = FALSE
    /\ session = "never"
    /\ lastSend = NoSend
    /\ lastConnect = NoConnect
    /\ lastDisconnect = NoDisconnect
    /\ closedActive = FALSE
    /\ attemptsSinceClose = 0

\* getSocketState() === WebSocket.OPEN, and the readyState test of sendAudio
SocketOpen(sks, sock) == sock # 0 /\ sks[sock].st = "OPEN"

MutSocketExists(sks, sock) == sock # 0

\* sendAudio's guards on the socket: it exists and its readyState is OPEN
SocketReady(sks, sock) == sock # 0 /\ sks[sock].st = "OPEN"

MutDisconnectAnyState(sks, sock) ==
    IF sock # 0 /\ sks[sock].st \in {"CONNECTING", "OPEN"}
    THEN [sks EXCEPT ![sock].sent = Append(@, "CloseStream"),
                     ![sock].st = "CLOSING"]
    ELSE sks

MutDisconnectSocks(sks, sock) ==
    IF sock # 0 /\ sks[sock].st = "OPEN"
    THEN [sks EXCEPT ![sock].st = "CLOSING"]
    ELSE sks

\* DeepgramService.disconnect(): CloseStream and close() only on an OPEN
\* socket; the reference is dropped in every case
DisconnectSocks(sks, sock) ==
    IF sock # 0 /\ sks[sock].st = "OPEN"
    THEN [sks EXCEPT ![sock].sent = Append(@, "CloseStream"),
                     ![sock].st = "CLOSING"]
    ELSE sks

\* DeepgramService.connect(): disconnect() when a socket is held, then a new
\* WebSocket becomes this.socket
ServiceConnect ==
    /\ nSocks < MaxSocks
    /\ socks' = [DisconnectSocks(socks, socket) EXCEPT ![nSocks + 1] = NewSock]
    /\ socket' = nSocks + 1
    /\ nSocks' = nSocks + 1
    /\ lastConnect' = [called |-> TRUE, wasOpen |-> SocketOpen(socks, socket)]
    /\ lastDisconnect' = NoDisconnect

\* connectToDeepgram called by the owner of the hook: initializeDeepgram on
\* first use (it fails without an API key), then service.connect
ConnectToDeepgram ==
    /\ apiKey
    /\ ServiceConnect
    /\ svcCreated' = TRUE
    /\ handlerInterim' = IF svcCreated THEN handlerInterim ELSE interimResults
    /\ session' = "active"
    /\ closedActive' = FALSE
    /\ attemptsSinceClose' = 0
    /\ UNCHANGED <<transcription, interimResults, events, afterFinal, committed,
                   cfgVars, isConnected, closureIsConnected, lastSend>>

\* connectToDeepgram without an API key: initializeDeepgram fails, false is
\* returned and nothing is created
ConnectWithoutKey ==
    /\ ~apiKey
    /\ UNCHANGED <<recVars, cliVars>>

\* disconnectFromDeepgram
DisconnectFromDeepgram ==
    /\ svcCreated
    /\ socks' = DisconnectSocks(socks, socket)
    /\ socket' = 0
    /\ isConnected' = FALSE
    /\ session' = "stopped"
    /\ closedActive' = FALSE
    /\ attemptsSinceClose' = 0
    /\ lastConnect' = NoConnect
    /\ lastDisconnect' =
          [called |-> TRUE,
           wasOpen |-> SocketOpen(socks, socket),
           wasDisconnected |-> (socket = 0 /\ ~isConnected),
           reportsDisconnected |-> (~SocketOpen(socks', socket') /\ socket' = 0
                                    /\ ~isConnected'),
           sentCloseStream |->
               (socket # 0
                /\ socks'[socket].sent = Append(socks[socket].sent, "CloseStream")),
           sentAny |-> (\E s \in SockIds : socks'[s].sent # socks[s].sent),
           closing |-> (socket # 0 /\ socks'[socket].st = "CLOSING"),
           changed |-> (<<socket', socks', isConnected'>> # <<socket, socks, isConnected>>)]
    /\ UNCHANGED <<recVars, cfgVars, nSocks, closureIsConnected, lastSend>>

\* the owner re-renders and hands on the current sendAudioToDeepgram
\* (useCallback closes over the isConnected of its render)
RefreshCallbacks ==
    /\ closureIsConnected # isConnected
    /\ closureIsConnected' = isConnected
    /\ UNCHANGED <<recVars, cfgVars, socket, socks, nSocks, isConnected, session,
                   lastSend, lastConnect, lastDisconnect, closedActive, attemptsSinceClose>>

AudioCount(sent) == Cardinality({i \in 1..Len(sent) : sent[i] = "Audio"})

\* DeepgramService.sendAudio reached: false unless the socket is ready and
\* the data non-empty; otherwise KeepAlive, then the audio, and true
SendAudio(nonEmpty, reached) ==
    /\ IF SocketReady(socks, socket) /\ nonEmpty
       THEN /\ AudioCount(socks[socket].sent) < MaxAudio
            /\ socks' = [socks EXCEPT ![socket].sent = @ \o <<"KeepAlive", "Audio">>]
       ELSE socks' = socks
    /\ lastSend' = [called |-> TRUE,
                    wasOpen |-> SocketOpen(socks, socket),
                    reachedService |-> reached,
                    result |-> socks' # socks,
                    transmitted |-> socks' # socks,
                    transcriptChanged |-> transcription' # transcription]
    /\ UNCHANGED <<socket, nSocks, lastConnect, lastDisconnect, attemptsSinceClose>>

\* sendAudioToDeepgram(audioData, chunkNumber)
SendAudioToDeepgram(chunkNumber, nonEmpty) ==
    /\ UNCHANGED <<recVars, cfgVars, closureIsConnected, session, closedActive>>
    /\ IF ~svcCreated \/ (~closureIsConnected /\ chunkNumber = 0)
       THEN \* not initialized, or not connected on the first chunk
            /\ lastSend' = [NoSend EXCEPT !.called = TRUE,
                                          !.wasOpen = SocketOpen(socks, socket)]
            /\ UNCHANGED <<socket, socks, nSocks, isConnected, lastConnect, lastDisconnect,
                           attemptsSinceClose>>
       ELSE IF ~closureIsConnected /\ ~SocketOpen(socks, socket)
       THEN \* reconnect started, not awaited; the chunk is dropped
            /\ ServiceConnect
            /\ lastSend' = [NoSend EXCEPT !.called = TRUE,
                                          !.transmitted =
                                              \E s \in SockIds : socks'[s].sent # socks[s].sent]
            /\ attemptsSinceClose' =
                  IF closedActive THEN attemptsSinceClose + 1 ELSE attemptsSinceClose
            /\ UNCHANGED isConnected
       ELSE \* connected, or the socket turned out to be open
            /\ isConnected' = IF closureIsConnected THEN isConnected ELSE TRUE
            /\ SendAudio(nonEmpty, TRUE)

\* a variant of SockOpen that keeps a segment dropped by the last send and
\* transmits it once the socket opens
MutSockOpenFlush(s) ==
    /\ socks[s].st = "CONNECTING"
    /\ socks' = [socks EXCEPT ![s].st = "OPEN", ![s].flag = TRUE,
                              ![s].pending = FALSE,
                              ![s].sent = IF lastSend.called /\ ~lastSend.transmitted
                                          THEN Append(@, "Audio") ELSE @]
    /\ isConnected' = IF socks[s].pending THEN TRUE ELSE isConnected
    /\ UNCHANGED <<recVars, cfgVars, socket, nSocks, closureIsConnected, session,
                   lastSend, lastConnect, lastDisconnect, closedActive, attemptsSinceClose>>

\* socket s opens: the onopen installed in the promise sets the closure's
\* flag and resolves connect() with true; connectToDeepgram then stores it
SockOpen(s) ==
    /\ socks[s].st = "CONNECTING"
    /\ socks' = [socks EXCEPT ![s].st = "OPEN", ![s].flag = TRUE,
                              ![s].pending = FALSE]
    /\ isConnected' = IF socks[s].pending THEN TRUE ELSE isConnected
    /\ UNCHANGED <<recVars, cfgVars, socket, nSocks, closureIsConnected, session,
                   lastSend, lastConnect, lastDisconnect, closedActive, attemptsSinceClose>>

\* a variant of ConnectTimeout whose timer answers only for the socket the
\* service still holds
MutConnectTimeoutHeldOnly(s) ==
    /\ socks[s].pending
    /\ ~socks[s].flag
    /\ s = socket
    /\ socks' = [socks EXCEPT ![s].pending = FALSE]
    /\ isConnected' = FALSE
    /\ UNCHANGED <<recVars, cfgVars, socket, nSocks, closureIsConnected, session,
                   lastSend, lastConnect, lastDisconnect, closedActive, attemptsSinceClose>>

\* the 5 s timer of socket s fires with the promise still pending: the
\* flag is not set, resolve(false), and connectToDeepgram stores false
ConnectTimeout(s) ==
    /\ socks[s].pending
    /\ ~socks[s].flag
    /\ socks' = [socks EXCEPT ![s].pending = FALSE]
    /\ isConnected' = FALSE
    /\ UNCHANGED <<recVars, cfgVars, socket, nSocks, closureIsConnected, session,
                   lastSend, lastConnect, lastDisconnect, closedActive, attemptsSinceClose>>

\* socket s closes (dropped by the peer or the network, or the close()
\* of disconnect completes): onclose clears the flag and calls onClose,
\* which sets isConnected to false
SockClose(s) ==
    /\ socks[s].st \in {"CONNECTING", "OPEN", "CLOSING"}
    /\ socks' = [socks EXCEPT ![s].st = "CLOSED", ![s].flag = FALSE]
    /\ isConnected' = FALSE
    /\ IF s = socket /\ socks[s].st = "OPEN" /\ session = "active"
       THEN closedActive' = TRUE /\ attemptsSinceClose' = 0
       ELSE UNCHANGED <<closedActive, attemptsSinceClose>>
    /\ UNCHANGED <<recVars, cfgVars, socket, nSocks, closureIsConnected, session,
                   lastSend, lastConnect, lastDisconnect>>

\* a Results message arrives on socket s
SockMessage(s, t, isFinal) ==
    /\ socks[s].st \in {"OPEN", "CLOSING"}
    /\ Len(events) < MaxClientEvents
    /\ DeliverResults(t, isFinal)
    /\ UNCHANGED <<interimResults, svcCreated, handlerInterim, cliVars>>

\* a variant of SockMalformed that treats the parse error as fatal to the
\* connection: the socket is closed and the hook told so
MutSockMalformedFatal(s) ==
    /\ socks[s].st \in {"OPEN", "CLOSING"}
    /\ malformedAt' = Len(events) + 1
    /\ socks' = [socks EXCEPT ![s].st = "CLOSED", ![s].flag = FALSE]
    /\ isConnected' = FALSE
    /\ UNCHANGED <<recVars, cfgVars, socket, nSocks, closureIsConnected, session,
                   lastSend, lastConnect, lastDisconnect, closedActive,
                   attemptsSinceClose>>

\* a message that JSON.parse rejects arrives on socket s: the catch block
\* of onmessage logs it and nothing else runs
SockMalformed(s) ==
    /\ socks[s].st \in {"OPEN", "CLOSING"}
    /\ malformedAt' = Len(events) + 1
    /\ UNCHANGED <<recVars, cliVars>>

\* setPunctuate / setSmartFormat, as returned by the hook
SetPunctuate(b) ==
    /\ b # punctuate
    /\ punctuate' = b
    /\ UNCHANGED <<recVars, apiKey, smartFormat, socket, socks, nSocks,
                   isConnected, closureIsConnected, session, lastSend,
                   lastConnect, lastDisconnect, closedActive, attemptsSinceClose>>

SetSmartFormat(b) ==
    /\ b # smartFormat
    /\ smartFormat' = b
    /\ UNCHANGED <<recVars, apiKey, punctuate, socket, socks, nSocks,
                   isConnected, closureIsConnected, session, lastSend,
                   lastConnect, lastDisconnect, closedActive, attemptsSinceClose>>

ClientTexts == {TxtBlank, TxtHello}

CliNext ==
    \/ UNCHANGED <<rotVars, msgVars, metVars>> /\ ConnectToDeepgram
    \/ UNCHANGED <<rotVars, msgVars, metVars>> /\ ConnectWithoutKey
    \/ UNCHANGED <<rotVars, msgVars, metVars>> /\ DisconnectFromDeepgram
    \/ UNCHANGED <<rotVars, msgVars, metVars>> /\ RefreshCallbacks
    \/ UNCHANGED <<rotVars, msgVars, metVars>> /\ \E c \in 0..1, ne \in BOOLEAN : SendAudioToDeepgram(c, ne)
    \/ UNCHANGED <<rotVars, msgVars, metVars>> /\ \E s \in SockIds : SockOpen(s)
    \/ UNCHANGED <<rotVars, msgVars, metVars>> /\ \E s \in SockIds : ConnectTimeout(s)
    \/ UNCHANGED <<rotVars, msgVars, metVars>> /\ \E s \in SockIds : SockClose(s)
    \/ UNCHANGED <<rotVars, msgVars, metVars>> /\ \E s \in SockIds, t \in ClientTexts, f \in BOOLEAN :
                               SockMessage(s, t, f)

(***************************************************************************)
(* The single-file variant of the client in App.js: the WebSocket is held  *)
(* in deepgramSocketRef (socket here) and used without DeepgramService.    *)
(***************************************************************************)
AppOther == <<recVars, cfgVars, isConnected, closureIsConnected, session,
              lastSend, lastConnect, lastDisconnect, closedActive, attemptsSinceClose>>

\* setupDeepgramSocket: a new WebSocket replaces the reference; the socket
\* held before is neither closed nor looked at
AppNewSocket ==
    /\ apiKey
    /\ nSocks < MaxSocks
    /\ socks' = [socks EXCEPT ![nSocks + 1] = NewSock]
    /\ socket' = nSocks + 1
    /\ nSocks' = nSocks + 1

\* startRecording's `await setupDeepgramSocket()`
AppSetupDeepgramSocket ==
    /\ AppNewSocket
    /\ UNCHANGED AppOther

\* processAndSendAudio once the file is read: reconnect and drop the chunk
\* when the socket is missing or not open, otherwise send the bytes
AppProcessAndSendAudio ==
    /\ IF ~SocketOpen(socks, socket)
       THEN AppNewSocket
       ELSE /\ AudioCount(socks[socket].sent) < MaxAudio
            /\ socks' = [socks EXCEPT ![socket].sent = Append(@, "Audio")]
            /\ UNCHANGED <<socket, nSocks>>
    /\ UNCHANGED AppOther

\* stopRecording's "Close Deepgram WebSocket": only an open socket is
\* closed and forgotten
AppStopSocket ==
    /\ socket # 0
    /\ IF SocketOpen(socks, socket)
       THEN socks' = DisconnectSocks(socks, socket) /\ socket' = 0
       ELSE UNCHANGED <<socks, socket>>
    /\ UNCHANGED <<AppOther, nSocks>>

\* onopen as installed in the promise: flag set, resolve(true)
AppSockOpen(s) ==
    /\ socks[s].st = "CONNECTING"
    /\ socks' = [socks EXCEPT ![s].st = "OPEN", ![s].flag = TRUE,
                              ![s].pending = FALSE]
    /\ UNCHANGED <<AppOther, socket, nSocks>>

\* onclose: the flag is cleared; the reconnect is guarded by the isRecording
\* of the render that created the handler, which is false
AppSockClose(s) ==
    /\ socks[s].st \in {"CONNECTING", "OPEN", "CLOSING"}
    /\ socks' = [socks EXCEPT ![s].st = "CLOSED", ![s].flag = FALSE]
    /\ UNCHANGED <<AppOther, socket, nSocks>>

\* the 5 s timer fires with the promise pending: resolve(false)
AppConnectTimeout(s) ==
    /\ socks[s].pending
    /\ ~socks[s].flag
    /\ socks' = [socks EXCEPT ![s].pending = FALSE]
    /\ UNCHANGED <<AppOther, socket, nSocks>>

AppNext ==
    \/ UNCHANGED <<rotVars, msgVars, metVars>> /\ AppSetupDeepgramSocket
    \/ UNCHANGED <<rotVars, msgVars, metVars>> /\ AppProcessAndSendAudio
    \/ UNCHANGED <<rotVars, msgVars, metVars>> /\ AppStopSocket
    \/ UNCHANGED <<rotVars, msgVars, metVars>> /\ \E s \in SockIds : AppSockOpen(s)
    \/ UNCHANGED <<rotVars, msgVars, metVars>> /\ \E s \in SockIds : AppSockClose(s)
    \/ UNCHANGED <<rotVars, msgVars, metVars>> /\ \E s \in SockIds : AppConnectTimeout(s)

RecNext ==
    \/ UNCHANGED <<rotVars, cliVars, msgVars, metVars>> /\ \E b \in BOOLEAN : SetInterimResults(b)
    \/ UNCHANGED <<rotVars, cliVars, msgVars, metVars>> /\ InitializeDeepgram
    \/ UNCHANGED <<rotVars, cliVars, msgVars, metVars>> /\ \E t \in Texts, f \in BOOLEAN : OnResults(t, f)
    \/ UNCHANGED <<rotVars, cliVars, msgVars, metVars>> /\ ClearTranscription


(***************************************************************************)
(* The segment rotator: useAudioRecording.                                 *)
(* Every await of the source is a point where other handlers may run:      *)
(* a tick in flight is a record holding its position (pc) and its locals.  *)
(***************************************************************************)
Sessions == 1..MaxSessions

RecIds == 1..MaxRecs

NoRec == [st |-> "none", long |-> FALSE, file |-> "none"]

NewRec == [st |-> "recording", long |-> FALSE, file |-> "none"]

\* no startRecording call is awaiting createAsync; `failed` records that
\* the latest call returned without starting a session
IdleStart == [pc |-> "idle", capRecording |-> 0, failed |-> FALSE]

FailedStart == [IdleStart EXCEPT !.failed = TRUE]

RotInit ==
    /\ permission = FALSE
    /\ recording = 0
    /\ isRecording = FALSE
    /\ recordingIntervalRef = 0
    /\ meteringIntervalRef = 0
    /\ rotTimers = {}
    /\ meterTimers = {}
    /\ nSessions = 0
    /\ streamInterval = [s \in Sessions |-> 0]
    /\ currentRecordingRef = [s \in Sessions |-> 0]
    /\ startCall = IdleStart
    /\ stops = << >>
    /\ recs = [r \in RecIds |-> NoRec]
    /\ nRecs = 0
    /\ ticks = << >>
    /\ emitted = << >>
    /\ stopped = {}

\* Audio.Recording.createAsync succeeds only while no other Recording is
\* prepared (expo-av allows one prepared Recording at a time)
DeviceCanPrepare ==
    /\ nRecs < MaxRecs
    /\ \A r \in RecIds : recs[r].st # "recording"

\* stopAndUnloadAsync: the Recording is unloaded whether or not the stop
\* itself succeeded; a successful stop leaves a file of some size
Unloaded(r, file) == [recs EXCEPT ![r] = [@ EXCEPT !.st = "unloaded", !.file = file]]

RemoveAt(seq, i) == SubSeq(seq, 1, i - 1) \o SubSeq(seq, i + 1, Len(seq))

\* getPermissions, run by the mount effect until access is granted
GetPermissions(granted) ==
    /\ ~permission
    /\ permission' = granted
    /\ UNCHANGED <<recording, isRecording, recordingIntervalRef,
                   meteringIntervalRef, rotTimers, meterTimers, nSessions,
                   streamInterval, currentRecordingRef, startCall, stops,
                   recs, nRecs, ticks, emitted, stopped>>

\* the recording's duration passes the 500 ms threshold
Elapse(r) ==
    /\ recs[r].st = "recording"
    /\ ~recs[r].long
    /\ recs' = [recs EXCEPT ![r].long = TRUE]
    /\ UNCHANGED <<permission, recording, isRecording, recordingIntervalRef,
                   meteringIntervalRef, rotTimers, meterTimers, nSessions,
                   streamInterval, currentRecordingRef, startCall, stops,
                   nRecs, ticks, emitted, stopped>>

\* stopRecording up to its await, called with the `recording` of its closure
StopSync(rec) ==
    /\ rotTimers' = rotTimers \ {recordingIntervalRef}
    /\ recordingIntervalRef' = 0
    /\ meterTimers' = meterTimers \ {meteringIntervalRef}
    /\ meteringIntervalRef' = 0
    /\ stopped' = 1..nSessions
    /\ IF rec # 0
       THEN /\ stops' = Append(stops, rec)
            /\ UNCHANGED isRecording
       ELSE /\ stops' = stops
            /\ isRecording' = FALSE

\* a variant of StartRecording without the permission test
MutStartRecordingNoPermission ==
    /\ startCall.pc = "idle"
    /\ nSessions < MaxSessions
    /\ startCall' = [pc |-> "create", capRecording |-> recording, failed |-> FALSE]
    /\ UNCHANGED <<permission, recording, isRecording, recordingIntervalRef,
                   meteringIntervalRef, rotTimers, meterTimers, nSessions,
                   streamInterval, currentRecordingRef, stops, recs, nRecs,
                   ticks, emitted, stopped>>

\* startRecording up to `await Audio.Recording.createAsync`; without
\* permission it returns at once
StartRecording ==
    /\ startCall.pc = "idle"
    /\ nSessions < MaxSessions
    /\ startCall' = IF permission
                    THEN [pc |-> "create", capRecording |-> recording, failed |-> FALSE]
                    ELSE FailedStart
    /\ UNCHANGED <<permission, recording, isRecording, recordingIntervalRef,
                   meteringIntervalRef, rotTimers, meterTimers, nSessions,
                   streamInterval, currentRecordingRef, stops, recs, nRecs,
                   ticks, emitted, stopped>>

\* createAsync resolved: the closure's state is set up and both intervals armed
StartCreated ==
    /\ startCall.pc = "create"
    /\ DeviceCanPrepare
    /\ nRecs' = nRecs + 1
    /\ recs' = [recs EXCEPT ![nRecs + 1] = NewRec]
    /\ recording' = nRecs + 1
    /\ isRecording' = TRUE
    /\ nSessions' = nSessions + 1
    /\ currentRecordingRef' = [currentRecordingRef EXCEPT ![nSessions + 1] = nRecs + 1]
    /\ streamInterval' = [streamInterval EXCEPT ![nSessions + 1] = 0]
    /\ rotTimers' = (rotTimers \ {recordingIntervalRef}) \cup {nSessions + 1}
    /\ recordingIntervalRef' = nSessions + 1
    /\ meterTimers' = meterTimers \cup {nSessions + 1}
    /\ meteringIntervalRef' = nSessions + 1
    /\ startCall' = IdleStart
    /\ UNCHANGED <<permission, stops, ticks, emitted, stopped>>

\* createAsync rejected: the catch block calls stopRecording
StartFailed ==
    /\ startCall.pc = "create"
    /\ Len(stops) < MaxStops
    /\ StopSync(startCall.capRecording)
    /\ startCall' = FailedStart
    /\ UNCHANGED <<permission, recording, nSessions, streamInterval,
                   currentRecordingRef, recs, nRecs, ticks, emitted>>

\* stopRecording up to `await recording.stopAndUnloadAsync()`
StopRecording ==
    /\ Len(stops) < MaxStops
    /\ StopSync(recording)
    /\ UNCHANGED <<permission, recording, nSessions, streamInterval,
                   currentRecordingRef, startCall, recs, nRecs, ticks, emitted>>

\* stopRecording after its await: whether or not the stop threw
StopDone(i) ==
    /\ i \in 1..Len(stops)
    /\ recs' = IF recs[stops[i]].st = "recording"
               THEN Unloaded(stops[i], "kept")
               ELSE recs
    /\ recording' = 0
    /\ isRecording' = FALSE
    /\ stops' = RemoveAt(stops, i)
    /\ UNCHANGED <<permission, recordingIntervalRef, meteringIntervalRef,
                   rotTimers, meterTimers, nSessions, streamInterval,
                   currentRecordingRef, startCall, nRecs, ticks, emitted, stopped>>

(***************************************************************************)
(* processCurrentSegment, one action per await.                            *)
(***************************************************************************)
\* the invocations in flight, oldest first; a finished one is dropped
Slots == 1..MaxInFlight

InFlight(k) == k \in 1..Len(ticks)

SetTick(k, t) == [ticks EXCEPT ![k] = t]

EndTick(k) == RemoveAt(ticks, k)

TickVarsOnly ==
    UNCHANGED <<permission, recording, isRecording, recordingIntervalRef,
                meteringIntervalRef, rotTimers, meterTimers, nSessions,
                streamInterval, currentRecordingRef, startCall, stops, recs,
                nRecs, emitted, stopped>>

\* the interval of closure s fires: up to `await getStatusAsync()`
TickFire(s) ==
    /\ s \in rotTimers
    /\ Len(ticks) < MaxInFlight
    /\ ticks' = Append(ticks, [pc |-> "status", sess |-> s,
                               rec |-> currentRecordingRef[s],
                               uri |-> 0, chunk |-> 0])
    /\ TickVarsOnly

\* a variant of TickStatus without the 500 ms threshold
MutTickStatusAnyDuration(k) ==
    /\ InFlight(k)
    /\ ticks[k].pc = "status"
    /\ LET t == ticks[k]
           cur == currentRecordingRef[t.sess]
       IN  ticks' =
              IF recs[t.rec].st # "recording"
              THEN SetTick(k, [t EXCEPT !.pc = "restart"])
              ELSE SetTick(k, [t EXCEPT !.pc = "stop", !.rec = cur, !.uri = cur])
    /\ TickVarsOnly

\* getStatusAsync resolved: the three early branches of the tick
TickStatus(k) ==
    /\ InFlight(k)
    /\ ticks[k].pc = "status"
    /\ LET t == ticks[k]
           cur == currentRecordingRef[t.sess]
       IN  ticks' =
              IF recs[t.rec].st # "recording"
              THEN SetTick(k, [t EXCEPT !.pc = "restart"])
              ELSE IF ~recs[t.rec].long
              THEN EndTick(k)
              ELSE SetTick(k, [t EXCEPT !.pc = "stop", !.rec = cur, !.uri = cur])
    /\ TickVarsOnly

\* getStatusAsync rejected: the outer catch logs and returns
TickStatusThrows(k) ==
    /\ InFlight(k)
    /\ ticks[k].pc = "status"
    /\ ticks' = EndTick(k)
    /\ TickVarsOnly

\* stopAndUnloadAsync resolved: processAndSendAudio(uri, streamInterval++)
\* runs up to `await getInfoAsync`
TickStopped(k) ==
    /\ InFlight(k)
    /\ ticks[k].pc = "stop"
    /\ recs[ticks[k].rec].st = "recording"
    /\ \E file \in {"small", "ok"} : recs' = Unloaded(ticks[k].rec, file)
    /\ ticks' = [ticks EXCEPT ![k] =
                    [ticks[k] EXCEPT !.pc = "getInfo",
                                     !.chunk = streamInterval[ticks[k].sess]]]
    /\ streamInterval' = [streamInterval EXCEPT ![ticks[k].sess] = @ + 1]
    /\ UNCHANGED <<permission, recording, isRecording, recordingIntervalRef,
                   meteringIntervalRef, rotTimers, meterTimers, nSessions,
                   currentRecordingRef, startCall, stops, nRecs, emitted, stopped>>

\* stopAndUnloadAsync rejected (already unloaded, or the device failed):
\* the catch block starts a recovery recording
TickStopThrows(k) ==
    /\ InFlight(k)
    /\ ticks[k].pc = "stop"
    /\ recs' = IF recs[ticks[k].rec].st = "recording"
               THEN Unloaded(ticks[k].rec, "none")
               ELSE recs
    /\ ticks' = [ticks EXCEPT ![k] = [@ EXCEPT !.pc = "recover"]]
    /\ UNCHANGED <<permission, recording, isRecording, recordingIntervalRef,
                   meteringIntervalRef, rotTimers, meterTimers, nSessions,
                   streamInterval, currentRecordingRef, startCall, stops,
                   nRecs, emitted, stopped>>

\* a variant of TickGetInfo without the size test: every file that exists
\* is read
MutTickGetInfoNoSize(k) ==
    /\ InFlight(k)
    /\ ticks[k].pc = "getInfo"
    /\ ticks' = [ticks EXCEPT ![k] =
                    [ticks[k] EXCEPT !.pc = IF recs[ticks[k].uri].file \in {"ok", "small"}
                                            THEN "read" ELSE "create"]]
    /\ TickVarsOnly

\* getInfoAsync resolved: a missing or too small file ends
\* processAndSendAudio; otherwise readAsStringAsync is awaited
TickGetInfo(k) ==
    /\ InFlight(k)
    /\ ticks[k].pc = "getInfo"
    /\ ticks' = [ticks EXCEPT ![k] =
                    [ticks[k] EXCEPT !.pc = IF recs[ticks[k].uri].file = "ok"
                                            THEN "read" ELSE "create"]]
    /\ TickVarsOnly

\* getInfoAsync or readAsStringAsync rejected: processAndSendAudio returns
TickFileThrows(k) ==
    /\ InFlight(k)
    /\ ticks[k].pc \in {"getInfo", "read"}
    /\ ticks' = [ticks EXCEPT ![k] = [@ EXCEPT !.pc = "create"]]
    /\ TickVarsOnly

\* readAsStringAsync resolved: the bytes are handed to onAudioData with the
\* chunk number, then deleteAsync is awaited
TickRead(k) ==
    /\ InFlight(k)
    /\ ticks[k].pc = "read"
    /\ recs[ticks[k].uri].file = "ok"
    /\ emitted' = Append(emitted, [sess |-> ticks[k].sess,
                                    chunk |-> ticks[k].chunk,
                                    rec |-> ticks[k].uri,
                                    afterStop |-> ticks[k].sess \in stopped])
    /\ ticks' = [ticks EXCEPT ![k] = [@ EXCEPT !.pc = "delete"]]
    /\ UNCHANGED <<permission, recording, isRecording, recordingIntervalRef,
                   meteringIntervalRef, rotTimers, meterTimers, nSessions,
                   streamInterval, currentRecordingRef, startCall, stops, recs,
                   nRecs, stopped>>

\* deleteAsync settled (a failure is only logged): back in
\* processCurrentSegment, createAsync is awaited
TickDelete(k, ok) ==
    /\ InFlight(k)
    /\ ticks[k].pc = "delete"
    /\ recs' = IF ok THEN [recs EXCEPT ![ticks[k].uri].file = "deleted"] ELSE recs
    /\ ticks' = [ticks EXCEPT ![k] = [@ EXCEPT !.pc = "create"]]
    /\ UNCHANGED <<permission, recording, isRecording, recordingIntervalRef,
                   meteringIntervalRef, rotTimers, meterTimers, nSessions,
                   streamInterval, currentRecordingRef, startCall, stops,
                   nRecs, emitted, stopped>>

CreatePcs == {"create", "recover", "restart"}

\* createAsync resolved in the tick (next segment, recovery, or restart of
\* an inactive recording): the closure's ref and the state take the new one
TickCreated(k) ==
    /\ InFlight(k)
    /\ ticks[k].pc \in CreatePcs
    /\ DeviceCanPrepare
    /\ nRecs' = nRecs + 1
    /\ recs' = [recs EXCEPT ![nRecs + 1] = NewRec]
    /\ currentRecordingRef' = [currentRecordingRef EXCEPT ![ticks[k].sess] = nRecs + 1]
    /\ recording' = nRecs + 1
    /\ ticks' = EndTick(k)
    /\ UNCHANGED <<permission, isRecording, recordingIntervalRef,
                   meteringIntervalRef, rotTimers, meterTimers, nSessions,
                   streamInterval, startCall, stops, emitted, stopped>>

\* a variant of TickCreateThrows in which a failed recovery is followed by
\* one more createAsync in the same tick
MutTickCreateThrows(k) ==
    /\ InFlight(k)
    /\ ticks[k].pc \in CreatePcs
    /\ ticks' = IF ticks[k].pc = "create"
                 THEN SetTick(k, [ticks[k] EXCEPT !.pc = "recover"])
                 ELSE IF ticks[k].pc = "recover"
                 THEN SetTick(k, [ticks[k] EXCEPT !.pc = "restart"])
                 ELSE EndTick(k)
    /\ TickVarsOnly

\* createAsync rejected in the tick: after the next-segment attempt one
\* recovery attempt follows, otherwise the tick ends
TickCreateThrows(k) ==
    /\ InFlight(k)
    /\ ticks[k].pc \in CreatePcs
    /\ ticks' = IF ticks[k].pc = "create"
                 THEN SetTick(k, [ticks[k] EXCEPT !.pc = "recover"])
                 ELSE EndTick(k)
    /\ TickVarsOnly

RotNext ==
    \/ UNCHANGED <<recVars, cliVars, msgVars, metVars>> /\ \E g \in BOOLEAN : GetPermissions(g)
    \/ UNCHANGED <<recVars, cliVars, msgVars, metVars>> /\ \E r \in RecIds : Elapse(r)
    \/ UNCHANGED <<recVars, cliVars, msgVars, metVars>> /\ StartRecording
    \/ UNCHANGED <<recVars, cliVars, msgVars, metVars>> /\ StartCreated
    \/ UNCHANGED <<recVars, cliVars, msgVars, metVars>> /\ StartFailed
    \/ UNCHANGED <<recVars, cliVars, msgVars, metVars>> /\ StopRecording
    \/ UNCHANGED <<recVars, cliVars, msgVars, metVars>> /\ \E i \in 1..MaxStops : StopDone(i)
    \/ UNCHANGED <<recVars, cliVars, msgVars, metVars>> /\ \E s \in Sessions : TickFire(s)
    \/ UNCHANGED <<recVars, cliVars, msgVars, metVars>> /\ \E k \in Slots : TickStatus(k)
    \/ UNCHANGED <<recVars, cliVars, msgVars, metVars>> /\ \E k \in Slots : TickStatusThrows(k)
    \/ UNCHANGED <<recVars, cliVars, msgVars, metVars>> /\ \E k \in Slots : TickStopped(k)
    \/ UNCHANGED <<recVars, cliVars, msgVars, metVars>> /\ \E k \in Slots : TickStopThrows(k)
    \/ UNCHANGED <<recVars, cliVars, msgVars, metVars>> /\ \E k \in Slots : TickGetInfo(k)
    \/ UNCHANGED <<recVars, cliVars, msgVars, metVars>> /\ \E k \in Slots : TickFileThrows(k)
    \/ UNCHANGED <<recVars, cliVars, msgVars, metVars>> /\ \E k \in Slots : TickRead(k)
    \/ UNCHANGED <<recVars, cliVars, msgVars, metVars>> /\ \E k \in Slots, ok \in BOOLEAN : TickDelete(k, ok)
    \/ UNCHANGED <<recVars, cliVars, msgVars, metVars>> /\ \E k \in Slots : TickCreated(k)
    \/ UNCHANGED <<recVars, cliVars, msgVars, metVars>> /\ \E k \in Slots : TickCreateThrows(k)

(***************************************************************************)
(* The metering interval of startRecording and the sample buffer.          *)
(* Samples are kept in sixtieths: the stored number v stands for v / 60.   *)
(***************************************************************************)
maxMeteringValues == 100

\* the levels the capture device reports, in dB
Levels == {-80, -60, -30, 0, 6}

\* Math.max(-60, status.metering), then (meterLevel + 60) / 60, in sixtieths
NormalizedValue(metering) == Max2(-60, metering) + 60

\* newValues.slice(-100)
SliceLast(newValues, n) ==
    SubSeq(newValues, Len(newValues) - n + 1, Len(newValues))

\* a variant of the updater that keeps the first 100 values of the new list
MutAppendSampleKeepFirst(prev, normalizedValue) ==
    IF Len(prev) + 1 > maxMeteringValues
    THEN SubSeq(Append(prev, normalizedValue), 1, maxMeteringValues)
    ELSE Append(prev, normalizedValue)

\* the updater passed to setMeteringValues
AppendSample(prev, normalizedValue) ==
    IF Len(Append(prev, normalizedValue)) > maxMeteringValues
    THEN SliceLast(Append(prev, normalizedValue), maxMeteringValues)
    ELSE Append(prev, normalizedValue)

MetInit ==
    /\ meteringValues = << >>
    /\ meterIntervals = << >>
    /\ meterArmed = {}
    /\ meterRef = 0
    /\ deviceMetering = -80
    /\ levelChanges = 0
    /\ arrivals = << >>
    /\ lastMeterTick = "none"

\* the capture device reports another level
DeviceLevel(l) ==
    /\ levelChanges < MaxLevelChanges
    /\ l # deviceMetering
    /\ deviceMetering' = l
    /\ levelChanges' = levelChanges + 1
    /\ UNCHANGED <<meteringValues, meterIntervals, meterArmed, meterRef,
                   arrivals, lastMeterTick>>

\* startRecording, as far as metering goes: the buffer is emptied and a new
\* interval is stored in the ref without clearing an earlier one; its callback
\* keeps the recording of the render that called startRecording
MeterStart(hasRecording) ==
    /\ Len(meterIntervals) < MaxMeterStarts
    /\ meteringValues' = << >>
    /\ arrivals' = << >>
    /\ meterIntervals' = Append(meterIntervals, hasRecording)
    /\ meterArmed' = meterArmed \cup {Len(meterIntervals) + 1}
    /\ meterRef' = Len(meterIntervals) + 1
    /\ UNCHANGED <<deviceMetering, levelChanges, lastMeterTick>>

\* stopRecording, as far as metering goes: the interval in the ref is cleared
MeterStop ==
    /\ meterRef # 0
    /\ meterArmed' = meterArmed \ {meterRef}
    /\ meterRef' = 0
    /\ UNCHANGED <<meteringValues, meterIntervals, deviceMetering, levelChanges,
                   arrivals, lastMeterTick>>

\* one run of the metering callback of interval i; the status the recording
\* answers with is the environment's choice
MeterTick(i, statusIsRecording, hasMetering) ==
    /\ i \in meterArmed
    /\ Len(arrivals) < MaxMeterSamples
    /\ IF meterIntervals[i] /\ statusIsRecording /\ hasMetering
       THEN /\ meteringValues' =
                  AppendSample(meteringValues, NormalizedValue(deviceMetering))
            /\ arrivals' = Append(arrivals, NormalizedValue(deviceMetering))
            /\ lastMeterTick' = "sampled"
       ELSE /\ lastMeterTick' = "skipped"
            /\ UNCHANGED <<meteringValues, arrivals>>
    /\ UNCHANGED <<meterIntervals, meterArmed, meterRef, deviceMetering,
                   levelChanges>>

MetNext ==
    \/ UNCHANGED <<recVars, rotVars, cliVars, msgVars>> /\ \E l \in Levels : DeviceLevel(l)
    \/ UNCHANGED <<recVars, rotVars, cliVars, msgVars>> /\ \E r \in BOOLEAN : MeterStart(r)
    \/ UNCHANGED <<recVars, rotVars, cliVars, msgVars>> /\ MeterStop
    \/ UNCHANGED <<recVars, rotVars, cliVars, msgVars>>
          /\ \E i \in 1..MaxMeterStarts, sr \in BOOLEAN, hm \in BOOLEAN : MeterTick(i, sr, hm)

MsgInit == malformedAt = 0

\* the state after the hooks mount: nothing recorded, connected or transcribed
Init == RecInit /\ RotInit /\ CliInit /\ MsgInit /\ MetInit

SpecRotator == Init /\ [][RotNext]_vars

SpecReconciler == Init /\ [][RecNext]_vars

SpecClient == Init /\ [][CliNext]_vars

\* the step of the 5 s timer of socket s
TimeoutStep(s) == UNCHANGED <<rotVars, msgVars, metVars>> /\ ConnectTimeout(s)

\* the client with its timers: a setTimeout that has been set fires, so the
\* timer of a connect() whose promise is still pending is not held back
\* for ever; nothing is assumed about the network
SpecClientFair ==
    Init /\ [][CliNext]_vars /\ \A s \in SockIds : WF_vars(TimeoutStep(s))

SpecApp == Init /\ [][AppNext]_vars

\* the owner changes the options between connects
OptNext ==
    \/ UNCHANGED <<rotVars, cliVars, msgVars, metVars>> /\ \E b \in BOOLEAN : SetInterimResults(b)
    \/ UNCHANGED <<rotVars, msgVars, metVars>> /\ \E b \in BOOLEAN : SetPunctuate(b)
    \/ UNCHANGED <<rotVars, msgVars, metVars>> /\ \E b \in BOOLEAN : SetSmartFormat(b)
    \/ UNCHANGED <<rotVars, msgVars, metVars>> /\ ConnectToDeepgram
    \/ UNCHANGED <<rotVars, msgVars, metVars>> /\ DisconnectFromDeepgram
    \/ UNCHANGED <<rotVars, msgVars, metVars>> /\ \E s \in SockIds : SockOpen(s)
    \/ UNCHANGED <<rotVars, msgVars, metVars>> /\ \E s \in SockIds : SockClose(s)

SpecOptions == Init /\ [][OptNext]_vars

\* the inbound side of a connection: results and messages that are not JSON
MsgNext ==
    \/ UNCHANGED <<rotVars, msgVars, metVars>> /\ ConnectToDeepgram
    \/ UNCHANGED <<rotVars, msgVars, metVars>> /\ \E s \in SockIds : SockOpen(s)
    \/ UNCHANGED <<rotVars, msgVars, metVars>> /\ \E s \in SockIds : SockClose(s)
    \/ UNCHANGED <<rotVars, msgVars, metVars>> /\ \E s \in SockIds, t \in ClientTexts, f \in BOOLEAN :
                                            SockMessage(s, t, f)
    \/ UNCHANGED <<rotVars, metVars>> /\ \E s \in SockIds : SockMalformed(s)

SpecMessages == Init /\ [][MsgNext]_vars

SpecMeter == Init /\ [][MetNext]_vars

(***************************************************************************)
(* Properties of the reconciler.                                           *)
(***************************************************************************)
LastEvent == events[Len(events)]

AllFinal == \A i \in 1..Len(events) : events[i].isFinal

\* C1: an interim event never alters committed text: the transcript as it
\* stood right after the most recent final event is still a prefix of the
\* transcript after every later interim event.
C1_InterimKeepsCommitted ==
    (events # << >> /\ ~LastEvent.isFinal) => IsPrefix(afterFinal, transcription)

ScenarioHowAreYou ==
    << [isFinal |-> FALSE, text |-> TxtHowAr],
       [isFinal |-> FALSE, text |-> TxtHowAreYou],
       [isFinal |-> TRUE, text |-> TxtHowAreYouQ] >>

\* C2: interim text never persists past the next final event: after a final
\* event the transcript is the merge of the final results alone, and the
\* scenario interim "how ar", interim "how are you", final "How are you?"
\* (interim results enabled) leaves exactly "How are you?".
C2_InterimSuperseded ==
    /\ (events # << >> /\ LastEvent.isFinal) => transcription = committed
    /\ (handlerInterim /\ events = ScenarioHowAreYou)
          => transcription = TxtHowAreYouQ

\* F1 + sep + ... + Fn for the first n delivered texts, where sep is one
\* space unless the preceding character is in noSep
RECURSIVE JoinedUpTo(_, _)
JoinedUpTo(n, noSep) ==
    IF n = 0 THEN << >>
    ELSE LET p == JoinedUpTo(n - 1, noSep)
         IN  p \o (IF p # << >> /\ LastChar(p) \notin noSep
                   THEN <<" ">> ELSE << >>)
               \o events[n].text

NoRepeat(noSep) ==
    \A i \in 1..Len(events) :
        ~EndsWith(JoinedUpTo(i - 1, noSep), events[i].text)

\* C3 (as stated): for final texts F1..Fn applied to an empty transcript,
\* none repeating the existing suffix, the transcript is F1 + sep + ... + Fn
\* with sep one space unless the preceding character is '.', '?', '!' or ','.
C3_JoinedAsStated ==
    (AllFinal /\ NoRepeat({".", "?", "!", ","}))
        => transcription = JoinedUpTo(Len(events), {".", "?", "!", ","})

\* C3 (amended): the same, with sep one space unless the preceding
\* character is a space, '.', '?', '!' or ','.
C3_Joined ==
    (AllFinal /\ NoRepeat({" ", ".", "?", "!", ","}))
        => transcription = JoinedUpTo(Len(events), {" ", ".", "?", "!", ","})

C3_Witness ==
    /\ Len(events) >= 3
    /\ AllFinal
    /\ NoRepeat({" ", ".", "?", "!", ","})
    /\ events[1].text = TxtHello
    /\ events[2].text = TxtAnd
    /\ transcription = TxtHello \o <<" ">> \o TxtAnd \o events[3].text

\* C4: a final event whose text is already the suffix of the transcript, or
\* that repeats the final event delivered just before it, leaves the
\* transcript unchanged.
C4_DuplicateSuppressed ==
    [][ ( /\ Len(events') = Len(events) + 1
          /\ events'[Len(events')].isFinal
          /\ \/ EndsWith(transcription, events'[Len(events')].text)
             \/ (events # << >> /\ LastEvent = events'[Len(events')]) )
        => transcription' = transcription ]_vars

C4_Witness ==
    /\ Len(events) >= 3
    /\ events[Len(events)] = events[Len(events) - 1]
    /\ LastEvent.isFinal
    /\ events[Len(events) - 2].isFinal
    /\ events[Len(events) - 2] # LastEvent
    /\ EndsWith(transcription, LastEvent.text)
    /\ Len(transcription) > Len(LastEvent.text)

(***************************************************************************)
(* Properties of the rotator.                                              *)
(***************************************************************************)
\* C5: within one session the rotator never emits two segments with the
\* same or a decreasing sequence number: in the order of emission the
\* sequence numbers of a session strictly increase.
C5_SequenceIncreasing ==
    \A i, j \in 1..Len(emitted) :
        (i < j /\ emitted[i].sess = emitted[j].sess)
            => emitted[i].chunk < emitted[j].chunk

\* C6: after stopRecording has been called no further segment is emitted,
\* also by a tick that was in flight when it was called.
C6_NoEmitAfterStop ==
    \A i \in 1..Len(emitted) : ~emitted[i].afterStop

(***************************************************************************)
(* Properties of the streaming client.                                     *)
(***************************************************************************)

\* C7: the client never starts a reconnect after disconnect() has been
\* called: from disconnect until the owner connects again, no step creates
\* a socket.
C7_NoReconnectAfterDisconnect ==
    [][(session = "stopped" /\ session' = "stopped") => nSocks' = nSocks]_vars

\* C8: once the held socket has closed unexpectedly during an active
\* session, the client has started exactly one new connection attempt for
\* that close (not zero, not several).
C8_ExactlyOneReconnect ==
    closedActive => attemptsSinceClose = 1

\* C9: a send made while the connection is not Open returns false,
\* transmits nothing on any socket and leaves the transcript unchanged.
C9_SendWhenNotOpen ==
    (lastSend.called /\ ~lastSend.wasOpen)
        => /\ lastSend.result = FALSE
           /\ ~lastSend.transmitted
           /\ ~lastSend.transcriptChanged

\* the send went through to DeepgramService.sendAudio (the hook still
\* believed the connection was up) while the socket was not open
C9_Witness ==
    /\ lastSend.called
    /\ ~lastSend.wasOpen
    /\ lastSend.reachedService
    /\ socket # 0
    /\ ~lastSend.result

TimedOut(s) == socks[s].st = "CONNECTING" /\ ~socks[s].pending

\* C11: once the connect timeout has answered an attempt with failure, the
\* socket of that attempt is torn down: it never becomes Open.
C11_TimedOutNeverOpen ==
    [][\A s \in SockIds : TimedOut(s) => socks'[s].st # "OPEN"]_vars

\* C12: a connection that has opened has had a KeepAlive sent on it at
\* once: while it is Open its first outbound message exists and is KeepAlive.
C12_KeepAliveOnOpen ==
    \A s \in SockIds :
        socks[s].st = "OPEN"
            => (Len(socks[s].sent) > 0 /\ socks[s].sent[1] = "KeepAlive")

\* C13: in the outbound order of every connection, each audio frame is
\* directly preceded by a KeepAlive message.
C13_KeepAliveBeforeAudio ==
    \A s \in SockIds : \A i \in 1..Len(socks[s].sent) :
        socks[s].sent[i] = "Audio"
            => (i > 1 /\ socks[s].sent[i - 1] = "KeepAlive")

\* C14: every connection carries the options connect() was called with:
\* its interim_results, punctuate and smart_format parameters equal the
\* interimResults, punctuate and smartFormat passed.
C14_OptionsCarried ==
    \A s \in SockIds :
        socks[s].st # "none"
            => /\ socks[s].params.interim_results = socks[s].opts.interimResults
               /\ socks[s].params.punctuate = socks[s].opts.punctuate
               /\ socks[s].params.smart_format = socks[s].opts.smartFormat

\* C15: after disconnect() (and until the owner connects again) no socket
\* created by the client is Connecting or Open.
C15_NoSocketOutstanding ==
    session = "stopped"
        => \A s \in SockIds : socks[s].st \notin {"CONNECTING", "OPEN"}

\* C16: whatever the state disconnect() is called in, the client reports
\* Disconnected afterwards; CloseStream is sent exactly when the connection
\* was Open, as the last message before the socket starts closing, and
\* nothing else is sent; a disconnect() that finds the client already
\* disconnected sends nothing and changes nothing.
C16_DisconnectIdempotent ==
    lastDisconnect.called
        => /\ lastDisconnect.reportsDisconnected
           /\ lastDisconnect.sentCloseStream <=> lastDisconnect.wasOpen
           /\ lastDisconnect.sentAny <=> lastDisconnect.wasOpen
           /\ lastDisconnect.wasOpen => lastDisconnect.closing
           /\ lastDisconnect.wasDisconnected
                  => (~lastDisconnect.changed /\ ~lastDisconnect.sentAny)

\* a disconnect of an open connection has been followed by a second one
C16_Witness ==
    /\ lastDisconnect.called
    /\ lastDisconnect.wasDisconnected
    /\ ~lastDisconnect.changed
    /\ \E s \in SockIds :
          /\ socks[s].st \in {"CLOSING", "CLOSED"}
          /\ Len(socks[s].sent) > 0
          /\ socks[s].sent[Len(socks[s].sent)] = "CloseStream"

\* the ConnectionState the client reports: getSocketState() of the service
\* (CLOSED when no socket is held, the socket's readyState otherwise)
ConnectionState ==
    IF socket = 0 THEN "Disconnected"
    ELSE CASE socks[socket].st = "CONNECTING" -> "Connecting"
           [] socks[socket].st = "OPEN" -> "Open"
           [] socks[socket].st = "CLOSING" -> "Closing"
           [] OTHER -> "Disconnected"

AllowedTransitions ==
    {<<"Disconnected", "Connecting">>, <<"Connecting", "Open">>,
     <<"Open", "Closing">>, <<"Closing", "Disconnected">>,
     <<"Connecting", "Disconnected">>}

\* C17: the ConnectionState changes only along Disconnected -> Connecting ->
\* Open -> Closing -> Disconnected, or Connecting -> Disconnected.
C17_OnlyAllowedTransitions ==
    [][ConnectionState' # ConnectionState
          => <<ConnectionState, ConnectionState'>> \in AllowedTransitions]_vars

(***************************************************************************)
(* Properties of the segment rotator, continued.                           *)
(***************************************************************************)

\* C18: processCurrentSegment is not re-entered: no two invocations in
\* flight are both stopping the same recording object.
C18_NoOverlappingStop ==
    \A i, j \in 1..Len(ticks) :
        (i # j /\ ticks[i].pc = "stop" /\ ticks[j].pc = "stop")
            => ticks[i].rec # ticks[j].rec

\* C19: segments reach the client in the order they were captured: of two
\* segments handed to onAudioData, the one recorded first (recordings are
\* numbered in the order they are created) is handed over first.
C19_CaptureOrder ==
    \A i, j \in 1..Len(emitted) :
        i < j => emitted[i].rec < emitted[j].rec

\* stop() has returned and no start() was called since
StopCompleted ==
    /\ nSessions > 0
    /\ stopped = 1..nSessions
    /\ stops = << >>
    /\ startCall.pc = "idle"

\* C20: once stop() has completed, neither the rotation nor the metering
\* interval is armed and no Recording is still recording, whatever ticks
\* were in flight and whatever start()/stop() calls came before.
C20_StopLeavesNothing ==
    StopCompleted =>
        /\ rotTimers = {}
        /\ meterTimers = {}
        /\ \A r \in RecIds : recs[r].st # "recording"

\* the session flag is off and no stop() is still awaiting its recording
NotRunning == ~isRecording /\ stops = << >>

\* C21: stop() is idempotent and safe when not running: called while no
\* session is active (before any start, or again after a stop), it stops no
\* recording and leaves no timer armed and the session flag off.
C21_StopWhenNotRunning ==
    [][(NotRunning /\ StopRecording) =>
          /\ stops' = stops
          /\ recs' = recs
          /\ rotTimers' = {}
          /\ meterTimers' = {}
          /\ ~isRecording']_vars

\* the tick in slot k fails in its rotation cycle: stopAndUnloadAsync
\* throws, or the createAsync that follows the hand-over throws
CycleFails(k) ==
    \/ TickStopThrows(k)
    \/ InFlight(k) /\ ticks[k].pc = "create" /\ TickCreateThrows(k)

\* the recovery createAsync of the tick in slot k settles
RecoverySettles(k) ==
    /\ InFlight(k)
    /\ ticks[k].pc = "recover"
    /\ TickCreated(k) \/ TickCreateThrows(k)

RECURSIVE AudioUpTo(_, _)
\* audio frames transmitted on the sockets 1..n
AudioUpTo(ss, n) ==
    IF n = 0 THEN 0 ELSE AudioCount(ss[n].sent) + AudioUpTo(ss, n - 1)

TotalAudio(ss) == AudioUpTo(ss, MaxSocks)

\* the step is one call of sendAudioToDeepgram
HandOver == \E c \in 0..1, ne \in BOOLEAN : SendAudioToDeepgram(c, ne)

\* C23: segments are not queued across connection gaps: an audio frame is
\* transmitted only inside the call that hands the segment over, at most one
\* frame per call and only when the held socket is open at that moment; no
\* other step (a socket opening after a reconnect included) transmits
\* audio, so a segment handed over while the connection is not open is
\* never transmitted later.
C23_NoBuffering ==
    [][/\ TotalAudio(socks') <= TotalAudio(socks) + 1
       /\ TotalAudio(socks') > TotalAudio(socks) =>
              (HandOver /\ SocketOpen(socks, socket))
       /\ (HandOver /\ ~SocketOpen(socks, socket)) =>
              TotalAudio(socks') = TotalAudio(socks)]_vars

\* a segment was handed over while the socket was not open, the held socket
\* has opened since, and no audio frame was ever transmitted
C23_Witness ==
    /\ lastSend.called
    /\ ~lastSend.wasOpen
    /\ SocketOpen(socks, socket)
    /\ TotalAudio(socks) = 0

C26_FirstSegmentIsZero ==
    \A i \in 1..Len(emitted) :
        (\A j \in 1..(i - 1) : emitted[j].sess # emitted[i].sess) =>
            emitted[i].chunk = 0

\* the tick in slot k is still inside processAndSendAudio for file r
Processing(k, r) ==
    /\ InFlight(k)
    /\ ticks[k].uri = r
    /\ ticks[k].pc \in {"getInfo", "read", "delete"}

\* C27: the file of every segment a tick harvested is released: once
\* processAndSendAudio has returned for it, the file no longer exists,
\* whether the segment was handed on or dropped.
C27_FileReleased ==
    \A r \in RecIds :
        recs[r].file \in {"small", "ok"} => \E k \in Slots : Processing(k, r)

\* C28: a segment whose file is 100 bytes or less is dropped silently: the
\* tick that finds it hands nothing to onAudioData (so neither a keepalive
\* nor an audio frame is sent for it), leaves timers and recordings alone
\* and goes on to open the replacement recording; no emitted segment ever
\* comes from such a file.
C28_SmallDropped ==
    [][/\ \A k \in Slots :
            (TickGetInfo(k) /\ recs[ticks[k].uri].file = "small") =>
                /\ ticks'[k].pc = "create"
                /\ UNCHANGED <<emitted, recs, rotTimers, streamInterval>>
       /\ \A i \in 1..Len(emitted) : recs[emitted[i].rec].file # "small"]_vars

\* a small file was dropped, nothing was emitted, and the armed closure
\* holds the replacement recording
C28_Witness ==
    \E r \in RecIds, s \in Sessions :
        /\ recs[r].file = "small"
        /\ emitted = << >>
        /\ s \in rotTimers
        /\ currentRecordingRef[s] > r
        /\ recs[currentRecordingRef[s]].st = "recording"

(***************************************************************************)
(* Properties of the streaming client, once more.                          *)
(***************************************************************************)
\* the held socket s, open in an active session, closes in this step
UnsolicitedClose(s) ==
    /\ s = socket
    /\ socks[s].st = "OPEN"
    /\ session = "active"
    /\ SockClose(s)

\* C29: on an unsolicited close in an active session the client has
\* re-invoked connect with the options last used by the time the close is
\* surfaced to the hook: the step that runs onclose creates a new socket
\* carrying the options of the closed one, and it still surfaces the close
\* (isConnected becomes false).
C29_ReconnectBeforeClosed ==
    [][\A s \in SockIds :
          UnsolicitedClose(s) =>
              /\ nSocks' = nSocks + 1
              /\ socks'[nSocks + 1].opts = socks[s].opts
              /\ ~isConnected']_vars

(***************************************************************************)
(* Properties of the segment rotator, once more.                           *)
(***************************************************************************)
\* no interval is armed, no Recording is recording, the session flag is off
NothingRunning ==
    /\ rotTimers = {}
    /\ meterTimers = {}
    /\ \A r \in RecIds : recs[r].st # "recording"
    /\ ~isRecording

\* nothing is running and nothing of an earlier session is still in flight
RotIdle ==
    /\ NothingRunning
    /\ recording = 0
    /\ stops = << >>
    /\ ticks = << >>

Terminators == {".", "?", "!"}

\* positions (1-based) of a sentence terminator that is followed by a space
SentenceEnds(p) ==
    {i \in 1..(Len(p) - 1) : p[i] \in Terminators /\ p[i + 1] = " "}

LastSentenceEnd(p) ==
    CHOOSE i \in SentenceEnds(p) : \A j \in SentenceEnds(p) : j <= i

\* C31: an interim event, seen by a handler with interim results enabled,
\* on a transcript that contains a terminator followed by a space keeps the
\* transcript up to and including the last such terminator and its space,
\* and replaces everything after it with the interim text.
C31_InterimKeepsSentences ==
    [][\A t \in Texts :
          (OnResults(t, FALSE) /\ HasText(t) /\ handlerInterim
                /\ SentenceEnds(transcription) # {}) =>
              transcription' =
                  SubSeq(transcription, 1, LastSentenceEnd(transcription) + 1) \o t]_vars

\* an interim text stands after the kept sentence "So. "
C31_Witness ==
    /\ Len(events) >= 2
    /\ ~LastEvent.isFinal
    /\ handlerInterim
    /\ transcription = <<"S", "o", ".", " ">> \o LastEvent.text

\* C32: interim events are processed only while interim results are
\* enabled: with the option off, an interim result leaves the transcript
\* unchanged, also when the option was switched off after the service was
\* created.
C32_InterimOnlyWhenEnabled ==
    [][\A t \in Texts :
          (OnResults(t, FALSE) /\ ~interimResults) =>
              transcription' = transcription]_vars

\* C33: a final event never removes or rewrites transcript text: the
\* transcript before the event is a prefix of the transcript after it.
C33_FinalOnlyAppends ==
    [][\A t \in Texts :
          OnResults(t, TRUE) => IsPrefix(transcription, transcription')]_vars

\* a final result was appended to a transcript that already held text
C33_Witness ==
    /\ Len(events) >= 2
    /\ LastEvent.isFinal
    /\ Len(transcription) > Len(LastEvent.text)
    /\ EndsWith(transcription, LastEvent.text)

(***************************************************************************)
(* Properties of the sample buffer.                                        *)
(***************************************************************************)
\* the last n elements of a sequence, all of it when it is shorter
LastN(seq, n) == SubSeq(seq, Max2(1, Len(seq) - n + 1), Len(seq))

\* C34: the sample buffer is bounded and ordered: it never holds more than
\* 100 samples, and it holds the latest samples in arrival order, so that a
\* sample appended to a full buffer evicts exactly the oldest one.
C34_BufferBoundedOrdered ==
    /\ Len(meteringValues) <= 100
    /\ meteringValues = LastN(arrivals, 100)

\* a sample was appended to a full buffer and the oldest one left
C34_Witness ==
    /\ lastMeterTick = "sampled"
    /\ Len(arrivals) = 101
    /\ Len(meteringValues) = 100
    /\ arrivals[1] # arrivals[2]
    /\ meteringValues[1] = arrivals[2]

\* C35: every stored sample is a normalized amplitude in [0,1], that is
\* between 0 and 60 sixtieths, whatever level the device reports.
C35_SamplesNormalized ==
    \A i \in 1..Len(meteringValues) :
        meteringValues[i] >= 0 /\ meteringValues[i] <= 60

(***************************************************************************)
(* Ownership of the connection and of the recording.                       *)
(***************************************************************************)
\* the sockets the client created that are connecting or open
LiveSocks == {s \in SockIds : socks[s].st \in {"CONNECTING", "OPEN"}}

\* C36: at most one socket created by the client is Connecting or Open at
\* any time.
C36_AtMostOneLiveSocket ==
    Cardinality(LiveSocks) <= 1

\* the Recordings that are recording
ActiveRecs == {r \in RecIds : recs[r].st = "recording"}

\* something of the rotator still refers to Recording r: the reference of a
\* session whose rotation interval is armed, the recording state of the hook,
\* or a stopRecording call that is about to unload it
Referenced(r) ==
    \/ \E s \in rotTimers : currentRecordingRef[s] = r
    \/ recording = r
    \/ \E i \in 1..Len(stops) : stops[i] = r

\* C37: at most one Recording is active at any instant, and every active
\* Recording is one the rotator still refers to.
C37_OneOwnedRecording ==
    /\ Cardinality(ActiveRecs) <= 1
    /\ \A r \in ActiveRecs : Referenced(r)

(***************************************************************************)
(* Properties of the client, continued.                                    *)
(***************************************************************************)
\* connect() has replaced socket s with a newer one, which the service holds
Superseded(s) == s \in 1..nSocks /\ socket # 0 /\ socket > s

\* an open, message or close event of socket s
SockEvent(s) ==
    \/ SockOpen(s)
    \/ SockClose(s)
    \/ \E t \in ClientTexts, f \in BOOLEAN : SockMessage(s, t, f)

\* C38: an event of a superseded socket changes neither the transcript nor
\* the connection flag of the hook, and starts no connection attempt.
C38_SupersededInert ==
    [][\A s \in SockIds :
          (Superseded(s) /\ SockEvent(s)) =>
              /\ transcription' = transcription
              /\ isConnected' = isConnected
              /\ nSocks' = nSocks]_vars

\* C39: the isConnected flag of useDeepgram is true only if the socket held
\* by DeepgramService is Open.
C39_FlagImpliesOpen ==
    isConnected => SocketOpen(socks, socket)

\* C40: every connect() call eventually returns a result: a promise that is
\* pending is eventually settled, whatever happens to its socket.
C40_ConnectResolves ==
    \A s \in SockIds : socks[s].pending ~> ~socks[s].pending

\* a connect() whose socket was replaced before it opened, and has not
\* opened since, has been answered by its timer
C40_Witness ==
    \E s \in SockIds :
        /\ Superseded(s)
        /\ socks[s].st = "CONNECTING"
        /\ ~socks[s].pending

====
